---- MODULE Spec2Model ----
(***************************************************************************)
(* Model of src/src/code/lambda_function.py: the property registry's       *)
(* request router, its handlers, the validators and the DynamoDB table     *)
(* the handlers read and write.                                            *)
(*                                                                         *)
(* JSON values are tagged records [t, v]: t is the JSON type, v the value. *)
(* A JSON string is a sequence of one-character strings, a JSON object a   *)
(* function from its keys to JSON values.  Decimals and timestamps are     *)
(* integers.  A stored item is a function from attribute names to values;  *)
(* store[k] is <<>> when the table holds no item under key k and <<item>>  *)
(* when it holds one.                                                      *)
(***************************************************************************)
EXTENDS Integers, Sequences, FiniteSets, TLC

VARIABLES
    store,      \* the DynamoDB table: <<userId, propertyId>> -> item
    now,        \* the last value datetime.now() returned
    usedIds,    \* property ids uuid4 has produced so far
    req,        \* the invocation of lambda_handler each worker is running
    resp,       \* the answer lambda_handler is returning, NoAnswer once handed over
    vin,        \* input of a validator run (SpecValidate, SpecGeometry)
    vop,        \* which validator ran on vin
    vout        \* its result

vars == <<store, now, usedIds, req, resp, vin, vop, vout>>

----------------------------------------------------------------------------
(* Bounds of the model *)

MaxTime == 3          \* clock readings per behaviour
MaxProps == 2         \* property ids uuid4 can produce
MaxPoints == 5        \* points of a coordinate list drawn in SpecGeometry
MaxPage == 3          \* records of a page drawn in SpecStats
Scale == 100          \* digits Decimal division keeps after the point, as 10^digits

(* Program constants *)

MinNameLen == 2
MaxNameLen == 100
MaxArea == 1000000
MaxDescriptionLen == 500
MinPoints == 4
MinLon == -180
MaxLon == 180
MinLat == -90
MaxLat == 90
MaxImport == 100

----------------------------------------------------------------------------
(* JSON values *)

JNull == [t |-> "null", v |-> 0]
JNum(n) == [t |-> "num", v |-> n]
JBool(b) == [t |-> "bool", v |-> b]
JStr(s) == [t |-> "str", v |-> s]
JList(s) == [t |-> "list", v |-> s]
JObj(d) == [t |-> "dict", v |-> d]

Rep(c, n) == [i \in 1..n |-> c]

Has(data, field) == field \in DOMAIN data
Get(data, field, default) == IF Has(data, field) THEN data[field] ELSE default

(* str.strip(): whitespace removed at both ends *)
IsSpace(c) == c = " "

RECURSIVE lstrip(_)
lstrip(s) == IF s # <<>> /\ IsSpace(Head(s)) THEN lstrip(Tail(s)) ELSE s

RECURSIVE rstrip(_)
rstrip(s) ==
    IF s # <<>> /\ IsSpace(s[Len(s)]) THEN rstrip(SubSeq(s, 1, Len(s) - 1)) ELSE s

strip(s) == rstrip(lstrip(s))

(* The numeric literals float() and Decimal() both accept, over the        *)
(* alphabet of the modelled strings (digits, sign, blank, letters):        *)
(* surrounding whitespace, an optional sign, one or more digits.           *)
DigitChars == <<"0", "1", "2", "3", "4", "5", "6", "7", "8", "9">>
IsDigit(c) == \E i \in 1..10 : DigitChars[i] = c
DigitVal(c) == (CHOOSE i \in 1..10 : DigitChars[i] = c) - 1

RECURSIVE DigitsVal(_, _)
DigitsVal(s, acc) ==
    IF s = <<>> THEN acc ELSE DigitsVal(Tail(s), 10 * acc + DigitVal(Head(s)))

ParseNumber(s) ==
    LET b == strip(s)
        signed == b # <<>> /\ Head(b) \in {"-", "+"}
        d == IF signed THEN Tail(b) ELSE b
    IN  IF d # <<>> /\ \A i \in 1..Len(d) : IsDigit(d[i])
        THEN [ok |-> TRUE,
              v |-> IF signed /\ Head(b) = "-" THEN 0 - DigitsVal(d, 0)
                    ELSE DigitsVal(d, 0)]
        ELSE [ok |-> FALSE, v |-> 0]

(* Decimal(str(x)): a number converts, a string is parsed, and str() of    *)
(* None, True, a list or a dict is no numeric literal (InvalidOperation).  *)
ToDecimal(x) ==
    CASE x.t = "num" -> [ok |-> TRUE, v |-> x.v]
      [] x.t = "str" -> ParseNumber(x.v)
      [] OTHER -> [ok |-> FALSE, v |-> 0]

(* float(x): a number converts, a bool is 0 or 1, a string is parsed       *)
(* (ValueError), anything else is a TypeError.                             *)
ToFloat(x) ==
    CASE x.t = "num" -> [ok |-> TRUE, v |-> x.v]
      [] x.t = "bool" -> [ok |-> TRUE, v |-> IF x.v THEN 1 ELSE 0]
      [] x.t = "str" -> ParseNumber(x.v)
      [] OTHER -> [ok |-> FALSE, v |-> 0]

(* Python's == on JSON values: numbers and bools compare by value, strings *)
(* by content, lists element-wise, values of different kinds are unequal.  *)
IsNumLike(x) == x.t \in {"num", "bool"}
NumOf(x) == IF x.t = "bool" THEN (IF x.v THEN 1 ELSE 0) ELSE x.v

RECURSIVE PyEq(_, _)
PyEq(a, b) ==
    CASE IsNumLike(a) /\ IsNumLike(b) -> NumOf(a) = NumOf(b)
      [] a.t = "str" /\ b.t = "str" -> a.v = b.v
      [] a.t = "null" /\ b.t = "null" -> TRUE
      [] a.t = "list" /\ b.t = "list" ->
            /\ Len(a.v) = Len(b.v)
            /\ \A i \in 1..Len(a.v) : PyEq(a.v[i], b.v[i])
      [] OTHER -> FALSE

----------------------------------------------------------------------------
(* Validators *)

Valid == [valid |-> TRUE, message |-> "Dados validos", raised |-> "none"]
Invalid(m) == [valid |-> FALSE, message |-> m, raised |-> "none"]
Raised(e) == [valid |-> FALSE, message |-> "", raised |-> e]

S_fazenda == <<"f", "a", "z", "e", "n", "d", "a">>
S_sitio == <<"s", "i", "t", "i", "o">>
S_chacara == <<"c", "h", "a", "c", "a", "r", "a">>
S_terreno == <<"t", "e", "r", "r", "e", "n", "o">>
S_outros == <<"o", "u", "t", "r", "o", "s">>
S_pending == <<"p", "e", "n", "d", "i", "n", "g">>

valid_types == {S_fazenda, S_sitio, S_chacara, S_terreno, S_outros}

(* the loop of validate_coordinates over the points, from point i on *)
RECURSIVE CoordsLoopOk(_, _)
CoordsLoopOk(cs, i) ==
    IF i > Len(cs) THEN TRUE
    ELSE LET coord == cs[i] IN
         IF coord.t # "list" \/ Len(coord.v) # 2 THEN FALSE
         ELSE LET lon == ToFloat(coord.v[1])
                  lat == ToFloat(coord.v[2])
              IN  IF ~lon.ok \/ ~lat.ok THEN FALSE
                  ELSE IF ~(MinLon <= lon.v /\ lon.v <= MaxLon) THEN FALSE
                  ELSE IF ~(MinLat <= lat.v /\ lat.v <= MaxLat) THEN FALSE
                  ELSE CoordsLoopOk(cs, i + 1)

validate_coordinates_NoClosure(coordinates) ==
    IF coordinates.t # "list" THEN FALSE
    ELSE IF Len(coordinates.v) < MinPoints THEN FALSE
    ELSE CoordsLoopOk(coordinates.v, 1)

validate_coordinates(coordinates) ==
    IF coordinates.t # "list" THEN FALSE
    ELSE IF Len(coordinates.v) < MinPoints THEN FALSE
    ELSE IF ~CoordsLoopOk(coordinates.v, 1) THEN FALSE
    ELSE IF ~PyEq(coordinates.v[1], coordinates.v[Len(coordinates.v)]) THEN FALSE
    ELSE TRUE

required_fields == <<"name", "area", "perimeter", "coordinates">>

RequiredMessage(field) ==
    CASE field = "name" -> "Campo obrigatorio: name"
      [] field = "area" -> "Campo obrigatorio: area"
      [] field = "perimeter" -> "Campo obrigatorio: perimeter"
      [] field = "coordinates" -> "Campo obrigatorio: coordinates"

validate_property_data(data) ==
    IF \E i \in 1..Len(required_fields) : ~Has(data, required_fields[i])
    THEN Invalid(RequiredMessage(required_fields[
            CHOOSE i \in 1..Len(required_fields) :
                /\ ~Has(data, required_fields[i])
                /\ \A j \in 1..(i - 1) : Has(data, required_fields[j])]))
    ELSE IF data["name"].t # "str" THEN Raised("AttributeError")
    ELSE LET name == strip(data["name"].v)
             area == ToDecimal(data["area"])
             perimeter == ToDecimal(data["perimeter"])
             property_type == Get(data, "type", JStr(S_fazenda))
             description == Get(data, "description", JStr(<<>>))
         IN
         IF name = <<>> \/ Len(name) < MinNameLen
         THEN Invalid("Nome deve ter pelo menos 2 caracteres")
         ELSE IF Len(name) > MaxNameLen
         THEN Invalid("Nome deve ter no maximo 100 caracteres")
         ELSE IF ~area.ok THEN Invalid("Area deve ser um numero valido")
         ELSE IF area.v <= 0 THEN Invalid("Area deve ser maior que zero")
         ELSE IF area.v > MaxArea THEN Invalid("Area muito grande")
         ELSE IF ~perimeter.ok THEN Invalid("Perimetro deve ser um numero valido")
         ELSE IF perimeter.v <= 0 THEN Invalid("Perimetro deve ser maior que zero")
         ELSE IF ~validate_coordinates(data["coordinates"])
         THEN Invalid("Coordenadas em formato invalido")
         ELSE IF ~(property_type.t = "str" /\ property_type.v \in valid_types)
         THEN Invalid("Tipo invalido")
         ELSE IF description.t \notin {"str", "list"} THEN Raised("TypeError")
         ELSE IF Len(description.v) > MaxDescriptionLen
         THEN Invalid("Descricao deve ter no maximo 500 caracteres")
         ELSE Valid

updatable_fields == <<"name", "type", "description", "area", "perimeter", "coordinates">>

(* the checks of validate_update_data that follow the name check *)
validate_update_rest(data) ==
    LET area == IF Has(data, "area") THEN ToDecimal(data["area"])
                ELSE [ok |-> TRUE, v |-> 1]
        perimeter == IF Has(data, "perimeter") THEN ToDecimal(data["perimeter"])
                     ELSE [ok |-> TRUE, v |-> 1]
    IN
    IF Has(data, "area") /\ ~area.ok THEN Invalid("Area deve ser um numero valido")
    ELSE IF Has(data, "area") /\ area.v <= 0 THEN Invalid("Area deve ser maior que zero")
    ELSE IF Has(data, "area") /\ area.v > MaxArea THEN Invalid("Area muito grande")
    ELSE IF Has(data, "perimeter") /\ ~perimeter.ok
    THEN Invalid("Perimetro deve ser um numero valido")
    ELSE IF Has(data, "perimeter") /\ perimeter.v <= 0
    THEN Invalid("Perimetro deve ser maior que zero")
    ELSE IF Has(data, "coordinates") /\ ~validate_coordinates(data["coordinates"])
    THEN Invalid("Coordenadas em formato invalido")
    ELSE IF Has(data, "type")
            /\ ~(data["type"].t = "str" /\ data["type"].v \in valid_types)
    THEN Invalid("Tipo invalido")
    ELSE IF Has(data, "description") /\ data["description"].t \notin {"str", "list"}
    THEN Raised("TypeError")
    ELSE IF Has(data, "description") /\ Len(data["description"].v) > MaxDescriptionLen
    THEN Invalid("Descricao deve ter no maximo 500 caracteres")
    ELSE Valid

(* validate_update_data without its at-least-one-field check *)
validate_update_data_NoEmptyCheck(data) ==
    IF Has(data, "name") /\ data["name"].t # "str" THEN Raised("AttributeError")
    ELSE IF Has(data, "name") /\ Len(strip(data["name"].v)) < MinNameLen
    THEN Invalid("Nome deve ter pelo menos 2 caracteres")
    ELSE IF Has(data, "name") /\ Len(strip(data["name"].v)) > MaxNameLen
    THEN Invalid("Nome deve ter no maximo 100 caracteres")
    ELSE validate_update_rest(data)

validate_update_data(data) ==
    IF ~\E i \in 1..Len(updatable_fields) : Has(data, updatable_fields[i])
    THEN Invalid("Pelo menos um campo deve ser fornecido para atualizacao")
    ELSE IF Has(data, "name") /\ data["name"].t # "str" THEN Raised("AttributeError")
    ELSE IF Has(data, "name") /\ Len(strip(data["name"].v)) < MinNameLen
    THEN Invalid("Nome deve ter pelo menos 2 caracteres")
    ELSE IF Has(data, "name") /\ Len(strip(data["name"].v)) > MaxNameLen
    THEN Invalid("Nome deve ter no maximo 100 caracteres")
    ELSE validate_update_rest(data)

----------------------------------------------------------------------------
(* Inputs of the validator runs *)

Pt(x, y) == JList(<<JNum(x), JNum(y)>>)
RingA == JList(<<Pt(0, 0), Pt(1, 0), Pt(1, 1), Pt(0, 0)>>)
RingB == JList(<<Pt(-50, -20), Pt(-51, -20), Pt(-51, -21), Pt(-50, -20)>>)
OpenRing == JList(<<Pt(0, 0), Pt(1, 0), Pt(1, 1), Pt(0, 1)>>)
Triangle == JList(<<Pt(0, 0), Pt(1, 0), Pt(0, 0)>>)
FarRing == JList(<<Pt(181, 0), Pt(1, 0), Pt(1, 1), Pt(181, 0)>>)
BoolRing ==
    JList(<<JList(<<JBool(TRUE), JNum(0)>>), Pt(0, 0), Pt(0, 1), Pt(1, 0)>>)

NameOptions ==
    <<JStr(<<>>), JStr(<<"a">>), JStr(<<" ", "a", " ">>), JStr(<<" ", "a", "b", " ">>),
      JStr(Rep("a", MaxNameLen)), JStr(Rep("a", MaxNameLen + 1)), JNum(7)>>
AreaOptions ==
    <<JNum(0), JNum(1), JNum(MaxArea), JNum(MaxArea + 1), JStr(<<"5">>),
      JStr(<<"x">>), JNull>>
PerimeterOptions == <<JNum(0), JNum(2000000), JStr(<<"-", "3">>), JBool(TRUE)>>
CoordinatesOptions == <<RingA, OpenRing, Triangle, FarRing, JNull>>
TypeOptions == <<JStr(S_sitio), JStr(<<"x">>), JNull>>
DescriptionOptions ==
    <<JStr(Rep("d", MaxDescriptionLen)), JStr(Rep("d", MaxDescriptionLen + 1)), JNum(1)>>

(* the payload with the chosen option of each field; option 0 leaves the field out *)
MkPayload(n, a, p, c, t, d) ==
    [f \in {g \in {"name", "area", "perimeter", "coordinates", "type", "description"} :
              CASE g = "name" -> n > 0
                [] g = "area" -> a > 0
                [] g = "perimeter" -> p > 0
                [] g = "coordinates" -> c > 0
                [] g = "type" -> t > 0
                [] g = "description" -> d > 0} |->
        CASE f = "name" -> NameOptions[n]
          [] f = "area" -> AreaOptions[a]
          [] f = "perimeter" -> PerimeterOptions[p]
          [] f = "coordinates" -> CoordinatesOptions[c]
          [] f = "type" -> TypeOptions[t]
          [] f = "description" -> DescriptionOptions[d]]

PointOptions ==
    <<Pt(0, 0), Pt(1, 1), Pt(MaxLon, MinLat), Pt(MaxLon + 1, 0), Pt(0, MaxLat + 1),
      JList(<<JStr(<<"0">>), JNum(0)>>), JList(<<JStr(<<"x">>), JNum(0)>>),
      JList(<<JNum(0)>>), JNull>>

----------------------------------------------------------------------------
(* Requests, responses and the table *)

Owners == {"A", "B"}
NoUser == ""                    \* extract_user_id found no identity
Users == Owners \cup {NoUser}
PropertyIds == 1..MaxProps
NoId == 0                       \* pathParameters carries no id
Keys == Owners \X PropertyIds
Workers == {"w1", "w2"}

(* create_response: every response carries the same headers *)
CorsHeaders ==
    [ContentType |-> "application/json", AllowOrigin |-> "*",
     AllowHeaders |-> "Content-Type,X-Amz-Date,Authorization,X-Api-Key,X-Amz-Security-Token",
     AllowMethods |-> "GET,POST,PUT,DELETE,OPTIONS"]
(* str(e) of a failure of the table or of the report library *)
FaultTexts == {"ProvisionedThroughputExceededException", "InternalServerError"}
NoText == ""

(* create_response; fault is the str(e) that an f-string put into the      *)
(* message after its colon, NoText when the message is a constant          *)
Response(status, error, items) ==
    [status |-> status, error |-> error, items |-> items, headers |-> CorsHeaders,
     fault |-> NoText]
NoResponse == Response(0, "", <<>>)

(* create_response(500, {"error": message}) where message was formatted   *)
(* with str(e)                                                             *)
Failure(message, text) == [Response(500, message, <<>>) EXCEPT !.fault = text]
Continue == Response(0, "continue", <<>>)

EmptyStore == [k \in Keys |-> <<>>]

(* the answer of handler op to user about property id; items are the keys  *)
(* (userId, propertyId) of the stored items the answer was made from;      *)
(* query is <<type, limit, lastKey>> as get_properties passed them on,     *)
(* <<body>>, the number of the request body, for import_properties,       *)
(* followed by the "imported" and "failed" counts when it answers 200, and *)
(* <<publication>>, what became of the event, for a create that wrote      *)
Answer(op, user, id, r) ==
    [op |-> op, user |-> user, id |-> id, status |-> r.status, error |-> r.error,
     items |-> r.items, query |-> <<>>, fault |-> r.fault]
NoAnswer == Answer("", NoUser, NoId, NoResponse)

KeyOf(item) == <<item.userId, item.propertyId>>

(* what an invocation keeps between two calls of the table: existing is    *)
(* the key of the item get_existing_property returned                      *)
IdleReq ==
    [pc |-> "idle", user |-> NoUser, id |-> NoId, body |-> 0, existing |-> <<>>,
     time |-> 0, batch |-> <<>>]

(* update_property up to its first store call: the id, the JSON parse and  *)
(* the empty-body check                                                    *)
update_property_precheck(property_id, parsed, body) ==
    IF property_id = NoId THEN Response(400, "ID da propriedade e obrigatorio", <<>>)
    ELSE IF ~parsed THEN Response(400, "JSON invalido no body da requisicao", <<>>)
    ELSE IF DOMAIN body = {}
    THEN Response(400, "Body da requisicao nao pode estar vazio", <<>>)
    ELSE Continue

----------------------------------------------------------------------------
(* SpecValidate: the validators and the update handler's body check, each  *)
(* applied to one payload drawn from the options above.                    *)

MainIdle ==
    /\ store = EmptyStore
    /\ now = 0
    /\ usedIds = {}
    /\ req = [w \in Workers |-> IdleReq]
    /\ resp = NoAnswer

InitValidate ==
    /\ MainIdle
    /\ \E n \in 0..Len(NameOptions), a \in 0..Len(AreaOptions),
          p \in 0..Len(PerimeterOptions), c \in 0..Len(CoordinatesOptions),
          t \in 0..Len(TypeOptions), d \in 0..Len(DescriptionOptions),
          x \in BOOLEAN :
            vin = IF x THEN MkPayload(n, a, p, c, t, d) @@ [id |-> JNum(1)]
                  ELSE MkPayload(n, a, p, c, t, d)
    /\ vop = "none"
    /\ vout = Valid

RunValidateCreate ==
    /\ vop = "none"
    /\ vop' = "validate_property_data"
    /\ vout' = validate_property_data(vin)
    /\ UNCHANGED <<store, now, usedIds, req, resp, vin>>

RunValidateUpdate ==
    /\ vop = "none"
    /\ vop' = "validate_update_data"
    /\ vout' = validate_update_data(vin)
    /\ UNCHANGED <<store, now, usedIds, req, resp, vin>>

RunUpdatePrecheck ==
    /\ vop = "none"
    /\ vop' = "update_property"
    /\ \E property_id \in PropertyIds :
          vout' = update_property_precheck(property_id, TRUE, vin)
    /\ UNCHANGED <<store, now, usedIds, req, resp, vin>>

NextValidate == RunValidateCreate \/ RunValidateUpdate \/ RunUpdatePrecheck

SpecValidate == InitValidate /\ [][NextValidate]_vars

(* SpecGeometry: validate_coordinates applied to one coordinates value *)

InitGeometry ==
    /\ MainIdle
    /\ \/ vin \in {JNull, JNum(4), JStr(<<"a", "b", "c", "d">>)}
       \/ \E n \in 0..MaxPoints :
            \E ix \in [1..n -> 1..Len(PointOptions)] :
                vin = JList([i \in 1..n |-> PointOptions[ix[i]]])
    /\ vop = "none"
    /\ vout = Valid

RunValidateCoordinates ==
    /\ vop = "none"
    /\ vop' = "validate_coordinates"
    /\ vout' = IF validate_coordinates(vin) THEN Valid
               ELSE Invalid("Coordenadas em formato invalido")
    /\ UNCHANGED <<store, now, usedIds, req, resp, vin>>

NextGeometry == RunValidateCoordinates

SpecGeometry == InitGeometry /\ [][NextGeometry]_vars

----------------------------------------------------------------------------
(* The router *)

Methods == {"GET", "POST", "PUT", "DELETE", "OPTIONS"}
Resources ==
    {"/properties", "/properties/{id}", "/properties/{id}/analysis",
     "/properties/report", "/properties/import", "/health"}

(* Python's `sub in resource` on the resources above *)
Contains(resource, sub) ==
    CASE sub = "/properties" -> resource # "/health"
      [] sub = "{id}" -> resource \in {"/properties/{id}", "/properties/{id}/analysis"}
      [] OTHER -> resource = sub

(* the router without its OPTIONS branch *)
Route_NoOptions(method, resource) ==
    IF method = "GET" /\ Contains(resource, "/properties/{id}/analysis")
    THEN "get_property_analysis"
    ELSE IF method = "POST" /\ Contains(resource, "/properties/report")
    THEN "generate_pdf_report"
    ELSE IF method = "POST" /\ Contains(resource, "/properties/import")
    THEN "import_properties"
    ELSE IF method = "POST" /\ Contains(resource, "/properties")
            /\ ~Contains(resource, "{id}")
    THEN "create_property"
    ELSE IF method = "GET" /\ Contains(resource, "/properties")
            /\ ~Contains(resource, "{id}")
    THEN "get_properties"
    ELSE IF method = "PUT" /\ Contains(resource, "/properties")
            /\ Contains(resource, "{id}")
    THEN "update_property"
    ELSE IF method = "DELETE" /\ Contains(resource, "/properties")
            /\ Contains(resource, "{id}")
    THEN "delete_property"
    ELSE "not_found"

Route(method, resource) ==
    IF method = "GET" /\ Contains(resource, "/properties/{id}/analysis")
    THEN "get_property_analysis"
    ELSE IF method = "POST" /\ Contains(resource, "/properties/report")
    THEN "generate_pdf_report"
    ELSE IF method = "POST" /\ Contains(resource, "/properties/import")
    THEN "import_properties"
    ELSE IF method = "POST" /\ Contains(resource, "/properties")
            /\ ~Contains(resource, "{id}")
    THEN "create_property"
    ELSE IF method = "GET" /\ Contains(resource, "/properties")
            /\ ~Contains(resource, "{id}")
    THEN "get_properties"
    ELSE IF method = "PUT" /\ Contains(resource, "/properties")
            /\ Contains(resource, "{id}")
    THEN "update_property"
    ELSE IF method = "DELETE" /\ Contains(resource, "/properties")
            /\ Contains(resource, "{id}")
    THEN "delete_property"
    ELSE IF method = "OPTIONS" THEN "options"
    ELSE "not_found"

(* lambda_handler: the identity check, then the router; the result is the *)
(* handler the event is passed to or the answer lambda_handler gives       *)
(* itself                                                                  *)
lambda_handler_RouteFirst(method, resource, user_id) ==
    IF Route(method, resource) \in {"options", "not_found"} /\ user_id = NoUser
    THEN "unauthorized"
    ELSE Route(method, resource)

lambda_handler(method, resource, user_id) ==
    IF user_id = NoUser THEN "unauthorized" ELSE Route(method, resource)

(* the answers lambda_handler gives without a handler *)
lambda_handler_response(decision) ==
    CASE decision = "unauthorized" ->
            Response(401, "Token invalido ou usuario nao identificado", <<>>)
      [] decision = "options" -> Response(200, "", <<>>)
      [] decision = "not_found" -> Response(404, "Endpoint nao encontrado", <<>>)
      [] OTHER -> NoResponse

(* SpecRouter: lambda_handler's dispatch of one event *)
InitRouter ==
    /\ MainIdle
    /\ \E method \in Methods, resource \in Resources, user \in Users :
        vin = [httpMethod |-> method, resource |-> resource, user |-> user]
    /\ vop = "none"
    /\ vout = Valid

RunLambdaHandler ==
    /\ vop = "none"
    /\ vop' = "lambda_handler"
    /\ LET decision == lambda_handler(vin.httpMethod, vin.resource, vin.user)
       IN  vout' = [dispatch |-> decision, response |-> lambda_handler_response(decision)]
    /\ UNCHANGED <<store, now, usedIds, req, resp, vin>>

NextRouter == RunLambdaHandler

SpecRouter == InitRouter /\ [][NextRouter]_vars

----------------------------------------------------------------------------
(* Request bodies of the main specification; body 0 is text json.loads rejects *)

EmptyBody == [x \in {} |-> JNull]
CreateA ==
    [name |-> JStr(<<"S", "o", "l">>), area |-> JNum(10), perimeter |-> JNum(40),
     coordinates |-> RingA]
CreateB ==
    [name |-> JStr(<<"L", "u", "a">>), type |-> JStr(S_sitio),
     description |-> JStr(<<"x">>), area |-> JNum(30),
     perimeter |-> JStr(<<"6", "0">>), coordinates |-> RingB]
CreateBadArea ==
    [name |-> JStr(<<"S", "o", "l">>), area |-> JNum(0), perimeter |-> JNum(40),
     coordinates |-> RingA]
CreateBool ==
    [name |-> JStr(<<"S", "o", "l">>), area |-> JNum(10), perimeter |-> JNum(40),
     coordinates |-> BoolRing]
UpdDescription == [description |-> JStr(<<"n", "e", "w">>)]
UpdArea == [area |-> JNum(20)]
UpdAreaOther == [area |-> JNum(30)]
UpdBadArea == [area |-> JNum(0)]
UpdNameType == [name |-> JStr(<<"M", "a", "r">>), type |-> JStr(S_outros)]
UpdCoordinates == [coordinates |-> RingB]
UpdNoField == [id |-> JNum(1)]
ImportAB == [properties |-> <<JObj(CreateB), JObj(CreateBadArea)>>]
ImportB == [properties |-> <<JObj(CreateB)>>]
ReportIds == [propertyIds |-> <<1, 2>>]
ImportMalformed == [properties |-> <<JObj(CreateB), JStr(<<"x">>)>>]
ImportTooMany ==
    [properties |-> Rep(JObj(CreateBadArea), MaxImport) \o <<JObj(CreateB)>>]
ImportFullInvalid == [properties |-> Rep(JObj(CreateBadArea), MaxImport)]

Bodies ==
    <<EmptyBody, CreateA, CreateB, CreateBadArea, CreateBool, UpdDescription,
      UpdArea, UpdBadArea, UpdNameType, UpdCoordinates, UpdNoField, ImportAB,
      ImportB, ReportIds, ImportMalformed, ImportTooMany, ImportFullInvalid,
      UpdAreaOther>>

BodyIxs == 0..Len(Bodies)
(* the bodies each route is sent *)
CreateBodies == {0, 2, 4, 5, 7}
UpdateBodies == {0, 1, 6, 7, 8, 11, 18}
ImportBodies == {0, 1, 12, 13, 15, 16, 17}
ReportBodies == {0, 1, 14}
Faults == {"none", "ClientError", "Exception"}

----------------------------------------------------------------------------
(* The store adapter *)

Present(st, k) == k \in DOMAIN st /\ st[k] # <<>>

(* datetime.now(): every reading is later than the one before *)
ClockReadable == now < MaxTime
ClockValue == now + 1

DecimalPoint(coord) ==
    IF coord.t = "list" /\ Len(coord.v) = 2
    THEN <<ToDecimal(coord.v[1]).v, ToDecimal(coord.v[2]).v>>
    ELSE coord

(* ok is FALSE when Decimal(str(..)) raises on a component *)
convert_coordinates_to_decimal(coordinates) ==
    IF coordinates.t # "list" THEN [ok |-> TRUE, v |-> coordinates]
    ELSE [ok |-> \A i \in 1..Len(coordinates.v) :
                    (coordinates.v[i].t = "list" /\ Len(coordinates.v[i].v) = 2)
                        => /\ ToDecimal(coordinates.v[i].v[1]).ok
                           /\ ToDecimal(coordinates.v[i].v[2]).ok,
          v |-> [i \in 1..Len(coordinates.v) |-> DecimalPoint(coordinates.v[i])]]

(* the item import_properties builds *)
import_item(user_id, property_id, body, current_time) ==
    [userId |-> user_id, propertyId |-> property_id, name |-> body["name"],
     type |-> Get(body, "type", JStr(S_fazenda)),
     description |-> Get(body, "description", JStr(<<>>)),
     area |-> ToDecimal(body["area"]).v,
     perimeter |-> ToDecimal(body["perimeter"]).v,
     coordinates |-> convert_coordinates_to_decimal(body["coordinates"]).v,
     createdAt |-> current_time, updatedAt |-> current_time]

(* the item create_property builds *)
property_item(user_id, property_id, body, current_time) ==
    import_item(user_id, property_id, body, current_time)
        @@ [analysisStatus |-> "pending"]

get_existing_property_AnyOwner(st, user_id, property_id) ==
    IF \E o \in Owners : Present(st, <<o, property_id>>)
    THEN st[<<CHOOSE o \in Owners : Present(st, <<o, property_id>>), property_id>>]
    ELSE <<>>

(* table.get_item by the two-part key: <<>> or <<item>> *)
get_existing_property(st, user_id, property_id) ==
    IF <<user_id, property_id>> \in Keys THEN st[<<user_id, property_id>>] ELSE <<>>

(* the attribute values update_property_data puts in its SET expression *)
UpdateValue(update_data, field) ==
    CASE field \in {"area", "perimeter"} -> ToDecimal(update_data[field]).v
      [] field = "coordinates" -> convert_coordinates_to_decimal(update_data[field]).v
      [] OTHER -> update_data[field]

UpdatedFields(update_data) ==
    {updatable_fields[i] : i \in 1..Len(updatable_fields)} \cap DOMAIN update_data

(* a write that puts the key and the SET values in the place of the item  *)
update_item_Replaces(st, key, update_data, current_time) ==
    [f \in UpdatedFields(update_data) |-> UpdateValue(update_data, f)]
        @@ [updatedAt |-> current_time, userId |-> key[1], propertyId |-> key[2]]

(* table.update_item(Key, "SET ...", ReturnValues = ALL_NEW): the item     *)
(* after the write; with no condition expression it writes the key's item  *)
(* whether or not one exists                                               *)
update_item(st, key, update_data, current_time) ==
    LET old == IF Present(st, key) THEN st[key][1]
               ELSE [userId |-> key[1], propertyId |-> key[2]]
        set == [f \in UpdatedFields(update_data) |-> UpdateValue(update_data, f)]
                  @@ [updatedAt |-> current_time]
    IN  set @@ old

(* convert_coordinates_to_float on a stored coordinates attribute: the    *)
(* table holds only lists of pairs, validation precedes every write of it  *)
convert_coordinates_to_float(coordinates) ==
    JList([i \in 1..Len(coordinates) |->
            JList(<<JNum(coordinates[i][1]), JNum(coordinates[i][2])>>)])

(* format_property_for_response: every key is present in the result,      *)
(* .get() gives None (JNull) for an attribute the item lacks; float() of a *)
(* stored Decimal keeps the value                                          *)
format_property_for_response(item) ==
    [id |-> JNum(item.propertyId),
     name |-> Get(item, "name", JNull),
     type |-> Get(item, "type", JNull),
     description |-> Get(item, "description", JStr(<<>>)),
     area |-> JNum(Get(item, "area", 0)),
     perimeter |-> JNum(Get(item, "perimeter", 0)),
     coordinates |-> convert_coordinates_to_float(Get(item, "coordinates", <<>>)),
     analysisStatus |-> Get(item, "analysisStatus", "pending"),
     createdAt |-> IF Has(item, "createdAt") THEN JNum(item.createdAt)
                   ELSE JNull,
     updatedAt |-> IF Has(item, "updatedAt") THEN JNum(item.updatedAt)
                   ELSE JNull]

(* Decimal division in calculate_stats: the quotient is kept in units of   *)
(* 1 / Scale and rounded to the last kept digit                            *)
DecimalDiv(a, n) == (a \div n) * Scale + (2 * (a % n) * Scale + n) \div (2 * n)
RECURSIVE SumOf(_, _)
SumOf(properties, field) ==
    IF properties = <<>> THEN 0
    ELSE ToDecimal(Head(properties)[field]).v + SumOf(Tail(properties), field)

MaxOf(S) == CHOOSE x \in S : \A y \in S : y <= x
MinOf(S) == CHOOSE x \in S : \A y \in S : x <= y

(* calculate_stats with zero areas kept among the candidate extremes *)
calculate_stats_ZeroAreas(properties) ==
    LET n == Len(properties)
        areas == {ToDecimal(properties[i]["area"]).v : i \in 1..n}
        types == {Get(properties[i], "type", JStr(S_outros)) : i \in 1..n}
    IN  [totalProperties |-> n,
         totalArea |-> SumOf(properties, "area"),
         totalPerimeter |-> SumOf(properties, "perimeter"),
         averageArea |-> IF n > 0 THEN DecimalDiv(SumOf(properties, "area"), n) ELSE 0,
         largestProperty |-> IF areas # {} THEN MaxOf(areas) ELSE 0,
         smallestProperty |-> IF areas # {} THEN MinOf(areas) ELSE 0,
         typeDistribution |->
            [t \in types |->
                Cardinality({i \in 1..n :
                                Get(properties[i], "type", JStr(S_outros)) = t})]]

(* calculate_stats on a page of formatted properties; averageArea is in    *)
(* units of 1 / Scale                                                      *)
calculate_stats(properties) ==
    LET n == Len(properties)
        areas == {a \in {ToDecimal(properties[i]["area"]).v : i \in 1..n} : a > 0}
        types == {Get(properties[i], "type", JStr(S_outros)) : i \in 1..n}
    IN  [totalProperties |-> n,
         totalArea |-> SumOf(properties, "area"),
         totalPerimeter |-> SumOf(properties, "perimeter"),
         averageArea |-> IF n > 0 THEN DecimalDiv(SumOf(properties, "area"), n) ELSE 0,
         largestProperty |-> IF areas # {} THEN MaxOf(areas) ELSE 0,
         smallestProperty |-> IF areas # {} THEN MinOf(areas) ELSE 0,
         typeDistribution |->
            [t \in types |->
                Cardinality({i \in 1..n :
                                Get(properties[i], "type", JStr(S_outros)) = t})]]

(* SpecStats: calculate_stats applied to one page of formatted records;    *)
(* the stored items of the page may lack area, perimeter or type           *)
StoredAreaOptions == <<10, 30, MaxArea>>
StoredPerimeterOptions == <<40>>
StoredTypeOptions == <<JStr(S_fazenda), JStr(S_sitio)>>

(* the stored item with the chosen option of each attribute; option 0      *)
(* leaves the attribute out                                                *)
MkItem(a, p, t) ==
    [f \in {"userId", "propertyId"}
            \cup (IF a > 0 THEN {"area"} ELSE {})
            \cup (IF p > 0 THEN {"perimeter"} ELSE {})
            \cup (IF t > 0 THEN {"type"} ELSE {}) |->
        CASE f = "userId" -> "A"
          [] f = "propertyId" -> 1
          [] f = "area" -> StoredAreaOptions[a]
          [] f = "perimeter" -> StoredPerimeterOptions[p]
          [] f = "type" -> StoredTypeOptions[t]]

ItemOptions ==
    {MkItem(a, p, t) : a \in 0..Len(StoredAreaOptions),
                       p \in 0..Len(StoredPerimeterOptions),
                       t \in 0..Len(StoredTypeOptions)}

InitStats ==
    /\ MainIdle
    /\ \E n \in 0..MaxPage :
        \E items \in [1..n -> ItemOptions] :
            vin = [i \in 1..n |-> format_property_for_response(items[i])]
    /\ vop = "none"
    /\ vout = Valid

RunCalculateStats ==
    /\ vop = "none"
    /\ vop' = "calculate_stats"
    /\ vout' = calculate_stats(vin)
    /\ UNCHANGED <<store, now, usedIds, req, resp, vin>>

NextStats == RunCalculateStats

SpecStats == InitStats /\ [][NextStats]_vars

RECURSIVE DescIds(_)
DescIds(S) ==
    IF S = {} THEN <<>>
    ELSE LET m == CHOOSE x \in S : \A y \in S : y <= x
         IN  <<m>> \o DescIds(S \ {m})

(* table.query(userId = user_id, Limit, ScanIndexForward = False,          *)
(* ExclusiveStartKey) and the type filter applied to the page              *)
get_user_properties(st, user_id, property_type, limit, last_key) ==
    LET owned == {p \in PropertyIds :
                    /\ Present(st, <<user_id, p>>)
                    /\ (last_key # NoId => p < last_key)}
        ids == DescIds(owned)
        page == SubSeq(ids, 1, IF Len(ids) < limit THEN Len(ids) ELSE limit)
        items == [i \in 1..Len(page) |-> st[<<user_id, page[i]>>][1]]
        Matches(item) ==
            property_type = <<>> \/ ("type" \in DOMAIN item /\ item["type"].t = "str"
                                   /\ item["type"].v = property_type)
    IN  [properties |-> SelectSeq(items, Matches),
         lastKey |-> IF Len(page) = limit /\ limit > 0 THEN page[Len(page)] ELSE NoId]

----------------------------------------------------------------------------
(* The handlers.  A worker runs one invocation of lambda_handler at a      *)
(* time.  An action is a stretch of one invocation that ends with a call   *)
(* of the table or with the answer, so that invocations interleave at      *)
(* their table calls; the clock is read in the stretch before the write    *)
(* that stores its value.  The first action of a handler includes          *)
(* lambda_handler's identity check and routing of the event.               *)

(* worker w is at pc and no answer is on its way out: an answer is the     *)
(* last thing of an invocation and is handed over before the next step     *)
At(w, pc) == resp = NoAnswer /\ req[w].pc = pc

Begin(user, id, body) == [IdleReq EXCEPT !.user = user, !.id = id, !.body = body]

(* an exception that leaves lambda_handler: the caller gets no response   *)
InternalError_Propagates == Response(0, "Exception", <<>>)

(* the except clause of lambda_handler and of each handler *)
InternalError == Response(500, "Erro interno do servidor", <<>>)

(* lambda_handler answering by itself: 401 without identity, the CORS      *)
(* preflight, 404 for a pair no route matches                              *)
LambdaHandlerAnswer(w) ==
    /\ At(w, "idle")
    /\ \E method \in Methods, resource \in Resources, user \in Users :
        LET decision == lambda_handler(method, resource, user)
        IN  /\ decision \in {"unauthorized", "options", "not_found"}
            /\ resp' = Answer("lambda_handler", user, NoId,
                              lambda_handler_response(decision))
    /\ UNCHANGED <<store, now, usedIds, req, vin, vop, vout>>

(* publish_property_created_event: no bus configured, the event put, or   *)
(* put_events raising                                                      *)
PublishOutcomes == {"no_bus", "published", "failed"}

(* create_property after put_item, with the failure of the publication let *)
(* through to the handler's except clause                                  *)
create_property_answer_Propagates(publication, key) ==
    IF publication = "failed" THEN InternalError ELSE Response(201, "", <<key>>)

(* create_property after put_item: the publication is tried, what it      *)
(* raises is logged, and the answer is 201 with the formatted item         *)
create_property_answer(publication, key) == Response(201, "", <<key>>)

(* create_property: parse, validate, new id, clock, put_item, the          *)
(* publication of the event and the answer.  The clock reading inside the  *)
(* published event is stored nowhere.                                      *)
CreateProperty(w) ==
    /\ At(w, "idle")
    /\ \E method \in Methods, resource \in Resources, user \in Users :
        /\ lambda_handler(method, resource, user) = "create_property"
        /\ \E body \in CreateBodies :
           LET v == validate_property_data(Bodies[body])
               Fails(r) == /\ resp' = Answer("create_property", user, NoId, r)
                           /\ UNCHANGED <<store, now, usedIds>>
           IN
           IF body = 0
           THEN Fails(Response(400, "JSON invalido no body da requisicao", <<>>))
           ELSE IF v.raised # "none" THEN Fails(InternalError)
           ELSE IF ~v.valid THEN Fails(Response(400, v.message, <<>>))
           ELSE /\ ClockReadable
                /\ now' = ClockValue
                /\ \E property_id \in PropertyIds \ usedIds, fault \in {"none", "Exception"} :
                    /\ usedIds' = usedIds \cup {property_id}
                    /\ LET item == property_item(user, property_id, Bodies[body], now')
                       IN
                       IF ~convert_coordinates_to_decimal(Bodies[body]["coordinates"]).ok
                          \/ fault # "none"
                       THEN /\ resp' = Answer("create_property", user, NoId, InternalError)
                            /\ store' = store
                       ELSE /\ store' = [store EXCEPT ![KeyOf(item)] = <<item>>]
                            /\ \E publication \in PublishOutcomes :
                                resp' = [Answer("create_property", user, property_id,
                                            create_property_answer(publication,
                                                                   KeyOf(item)))
                                         EXCEPT !.query = <<publication>>]
    /\ UNCHANGED <<req, vin, vop, vout>>

LimitParams == {0, 1, 101}         \* the values of ?limit= ; 0 also stands for none given
TypeParams == {<<>>, S_sitio}

(* get_properties: the query parameters and get_user_properties *)
GetProperties(w) ==
    /\ At(w, "idle")
    /\ \E method \in Methods, resource \in Resources, user \in Users :
        /\ lambda_handler(method, resource, user) = "get_properties"
        /\  \/ \E failure \in {InternalError} \cup
                    {Failure("Erro ao buscar propriedades: detail", text) :
                        text \in FaultTexts} :
                    resp' = Answer("get_properties", user, NoId, failure)
            \/ \E property_type \in TypeParams, limit_param \in LimitParams,
                  last_key \in {NoId} \cup PropertyIds :
                LET limit == IF limit_param < 1 \/ limit_param > 100 THEN 50
                             ELSE limit_param
                    result == get_user_properties(store, user, property_type,
                                                  limit, last_key)
                IN  resp' = [Answer("get_properties", user, result.lastKey,
                                    Response(200, "",
                                        [i \in 1..Len(result.properties) |->
                                             KeyOf(result.properties[i])]))
                             EXCEPT !.query = <<property_type, limit, last_key>>]
    /\ UNCHANGED <<store, now, usedIds, req, vin, vop, vout>>

(* update_property up to the call of update_item: the checks of the        *)
(* event, get_existing_property, validate_update_data, and in              *)
(* update_property_data the clock reading and the conversion of the values *)
UpdateCheck(w) ==
    /\ At(w, "idle")
    /\ \E method \in Methods, resource \in Resources, user \in Users :
        /\ lambda_handler(method, resource, user) = "update_property"
        /\ \E id \in {NoId} \cup PropertyIds, body \in UpdateBodies :
           LET pre == update_property_precheck(id, body # 0, Bodies[body])
               existing == get_existing_property(store, user, id)
               v == validate_update_data(Bodies[body])
               Ends(r) == /\ resp' = Answer("update_property", user, id, r)
                          /\ UNCHANGED <<now, req>>
           IN
           IF pre # Continue THEN Ends(pre)
           ELSE \E fault \in Faults :
                IF fault = "Exception" THEN Ends(InternalError)
                ELSE IF fault = "ClientError" \/ existing = <<>>
                THEN Ends(Response(404, "Propriedade nao encontrada", <<>>))
                ELSE IF v.raised # "none" THEN Ends(InternalError)
                ELSE IF ~v.valid THEN Ends(Response(400, v.message, <<>>))
                ELSE /\ ClockReadable
                     /\ now' = ClockValue
                     /\ IF Has(Bodies[body], "coordinates")
                           /\ ~convert_coordinates_to_decimal(
                                    Bodies[body]["coordinates"]).ok
                        THEN /\ resp' = Answer("update_property", user, id, InternalError)
                             /\ req' = req
                        ELSE /\ req' = [req EXCEPT ![w] =
                                    [Begin(user, id, body) EXCEPT
                                        !.pc = "update_write",
                                        !.existing = KeyOf(existing[1]),
                                        !.time = now']]
                             /\ resp' = resp
    /\ UNCHANGED <<store, usedIds, vin, vop, vout>>

(* table.update_item and the answer of update_property *)
UpdateWrite(w) ==
    /\ At(w, "update_write")
    /\ \E fault \in Faults, text \in FaultTexts :
        LET r == req[w]
            key == <<r.user, r.id>>
            item == update_item(store, key, Bodies[r.body], r.time)
        IN
        IF fault = "ClientError"
        THEN /\ resp' = Answer("update_property", r.user, r.id,
                    Failure("Erro ao atualizar propriedade: detail", text))
             /\ store' = store
        ELSE IF fault = "Exception"
        THEN /\ resp' = Answer("update_property", r.user, r.id, InternalError)
             /\ store' = store
        ELSE /\ store' = [store EXCEPT ![key] = <<item>>]
             /\ resp' = Answer("update_property", r.user, r.id,
                               Response(200, "", <<KeyOf(item)>>))
    /\ req' = [req EXCEPT ![w] = IdleReq]
    /\ UNCHANGED <<now, usedIds, vin, vop, vout>>

(* delete_property up to and including get_existing_property *)
DeleteCheck(w) ==
    /\ At(w, "idle")
    /\ \E method \in Methods, resource \in Resources, user \in Users :
        /\ lambda_handler(method, resource, user) = "delete_property"
        /\ \E id \in {NoId} \cup PropertyIds :
           LET existing == get_existing_property(store, user, id)
               Ends(r) == /\ resp' = Answer("delete_property", user, id, r)
                          /\ req' = req
           IN
           IF id = NoId THEN Ends(Response(400, "ID da propriedade e obrigatorio", <<>>))
           ELSE \E fault \in Faults :
                IF fault = "Exception" THEN Ends(InternalError)
                ELSE IF fault = "ClientError" \/ existing = <<>>
                THEN Ends(Response(404, "Propriedade nao encontrada", <<>>))
                ELSE /\ req' = [req EXCEPT ![w] =
                            [Begin(user, id, 0) EXCEPT
                                !.pc = "delete_write", !.existing = KeyOf(existing[1])]]
                     /\ resp' = resp
    /\ UNCHANGED <<store, now, usedIds, vin, vop, vout>>

(* delete_property_data with a delete_item that has no condition *)
delete_property_data_Unconditioned(st, key, fault, text) ==
    IF fault = "ClientError"
    THEN [success |-> FALSE, message |-> "Erro ao deletar propriedade: detail",
          text |-> text]
    ELSE IF fault = "Exception"
    THEN [success |-> FALSE, message |-> "Erro inesperado: detail", text |-> text]
    ELSE [success |-> TRUE, message |-> "Propriedade deletada com sucesso",
          text |-> NoText]

(* delete_property_data: the result of the conditioned delete_item *)
(* text is str(e) of the failure, if there is one                          *)
delete_property_data(st, key, fault, text) ==
    IF fault = "ClientError"
    THEN [success |-> FALSE, message |-> "Erro ao deletar propriedade: detail",
          text |-> text]
    ELSE IF fault = "Exception"
    THEN [success |-> FALSE, message |-> "Erro inesperado: detail", text |-> text]
    ELSE IF ~Present(st, key)
    THEN [success |-> FALSE,
          message |-> "Propriedade nao encontrada ou nao pertence ao usuario",
          text |-> NoText]
    ELSE [success |-> TRUE, message |-> "Propriedade deletada com sucesso",
          text |-> NoText]

(* the answer of delete_property to the result of delete_property_data *)
delete_property_response(deletion_result, existing) ==
    IF deletion_result.success THEN Response(200, "", <<existing>>)
    ELSE Failure(deletion_result.message, deletion_result.text)

DeleteWrite(w) ==
    /\ At(w, "delete_write")
    /\ \E fault \in Faults, text \in FaultTexts :
        LET r == req[w]
            key == <<r.user, r.id>>
            deletion_result == delete_property_data(store, key, fault, text)
        IN
        /\ store' = IF deletion_result.success THEN [store EXCEPT ![key] = <<>>]
                    ELSE store
        /\ resp' = Answer("delete_property", r.user, r.id,
                          delete_property_response(deletion_result, r.existing))
    /\ req' = [req EXCEPT ![w] = IdleReq]
    /\ UNCHANGED <<now, usedIds, vin, vop, vout>>

(* get_property_analysis: the ownership check, then the analysis lookup *)
GetPropertyAnalysis(w) ==
    /\ At(w, "idle")
    /\ \E method \in Methods, resource \in Resources, user \in Users :
        /\ lambda_handler(method, resource, user) = "get_property_analysis"
        /\ \E id \in {NoId} \cup PropertyIds :
           LET existing == get_existing_property(store, user, id)
               Ends(r) == resp' = Answer("get_property_analysis", user, id, r)
           IN
           IF id = NoId THEN Ends(Response(400, "ID da propriedade e obrigatorio", <<>>))
           ELSE \E fault \in Faults :
                IF fault = "Exception" THEN Ends(InternalError)
                ELSE IF fault = "ClientError" \/ existing = <<>>
                THEN Ends(Response(404, "Propriedade nao encontrada", <<>>))
                ELSE Ends(Response(200, "", <<KeyOf(existing[1])>>))
    /\ UNCHANGED <<store, now, usedIds, req, vin, vop, vout>>

(* generate_pdf_report: the owner's records among the ids asked for *)
GeneratePdfReport(w) ==
    /\ At(w, "idle")
    /\ \E method \in Methods, resource \in Resources, user \in Users :
        /\ lambda_handler(method, resource, user) = "generate_pdf_report"
        /\ \E body \in ReportBodies :
           LET property_ids == Get(Bodies[body], "propertyIds", <<>>)
               found == SelectSeq(property_ids,
                            LAMBDA p : get_existing_property(store, user, p) # <<>>)
               properties == [i \in 1..Len(found) |->
                                KeyOf(get_existing_property(store, user, found[i])[1])]
               Ends(r) == resp' = Answer("generate_pdf_report", user, NoId, r)
           IN
           IF body = 0 THEN Ends(Response(400, "JSON invalido", <<>>))
           ELSE IF property_ids = <<>>
           THEN Ends(Response(400, "Lista de propriedades e obrigatoria", <<>>))
           ELSE \E fault \in Faults, pdf_ok \in BOOLEAN, text \in FaultTexts :
                IF fault = "Exception"
                THEN Ends(Response(500, "Erro ao gerar relatorio PDF", <<>>))
                ELSE IF fault = "ClientError" \/ properties = <<>>
                THEN Ends(Response(404, "Nenhuma propriedade encontrada", <<>>))
                ELSE IF ~pdf_ok THEN Ends(Failure("Erro ao criar PDF: detail", text))
                ELSE Ends(Response(200, "", properties))
    /\ UNCHANGED <<store, now, usedIds, req, vin, vop, vout>>

(* whether import_properties puts a dict of the list among items_to_insert *)
Importable(property_data) ==
    /\ validate_property_data(property_data).valid
    /\ convert_coordinates_to_decimal(property_data["coordinates"]).ok

(* one turn of the loop of import_properties over the list: "item" when    *)
(* the entry gives an item to insert, "failed" when it is put among        *)
(* failed_imports, "raised" when the turn raises.  Recording a failure     *)
(* calls property_data.get, which an entry that is no dict does not have:  *)
(* the except clause of the turn then raises itself.                       *)
import_entry(property_data) ==
    IF property_data.t # "dict" THEN "raised"
    ELSE IF Importable(property_data.v) THEN "item"
    ELSE "failed"

(* import_properties without its limit on the length of the list *)
import_properties_precheck_NoCap(parsed, properties_data) ==
    IF ~parsed THEN Response(400, "JSON invalido", <<>>)
    ELSE IF properties_data = <<>>
    THEN Response(400, "Lista de propriedades e obrigatoria", <<>>)
    ELSE Continue

(* import_properties up to its loop: the JSON parse and the checks of the  *)
(* list                                                                    *)
import_properties_precheck(parsed, properties_data) ==
    IF ~parsed THEN Response(400, "JSON invalido", <<>>)
    ELSE IF properties_data = <<>>
    THEN Response(400, "Lista de propriedades e obrigatoria", <<>>)
    ELSE IF Len(properties_data) > MaxImport
    THEN Response(400, "Maximo 100 propriedades por importacao", <<>>)
    ELSE Continue

(* the outcomes of the turns of the loop over the list of each body *)
LoopOutcomes ==
    [b \in 1..Len(Bodies) |->
        LET properties_data == Get(Bodies[b], "properties", <<>>)
        IN  [i \in 1..Len(properties_data) |-> import_entry(properties_data[i])]]

(* import_properties up to the batch write: the checks of the list, the    *)
(* clock reading, one new id and one item per importable entry             *)
ImportPrepare(w) ==
    /\ At(w, "idle")
    /\ \E method \in Methods, resource \in Resources, user \in Users :
        /\ lambda_handler(method, resource, user) = "import_properties"
        /\ \E body \in ImportBodies :
           LET properties_data == Get(Bodies[body], "properties", <<>>)
               good == {i \in 1..Len(properties_data) : LoopOutcomes[body][i] = "item"}
               order == SelectSeq([i \in 1..Len(properties_data) |-> i],
                                  LAMBDA i : i \in good)
               pre == import_properties_precheck(body # 0, properties_data)
               Ends(r) == /\ resp' = [Answer("import_properties", user, NoId, r)
                                        EXCEPT !.query = <<body>>]
                          /\ req' = req
           IN
           IF pre # Continue THEN Ends(pre) /\ UNCHANGED <<now, usedIds>>
           ELSE /\ ClockReadable
                /\ now' = ClockValue
                /\ IF \E i \in 1..Len(properties_data) : LoopOutcomes[body][i] = "raised"
                   THEN /\ Ends(Response(500, "Erro na importacao de propriedades", <<>>))
                        /\ usedIds' = usedIds
                   ELSE \E ids \in [good -> PropertyIds \ usedIds] :
                    /\ \A i, j \in good : ids[i] = ids[j] => i = j
                    /\ usedIds' = usedIds \cup {ids[i] : i \in good}
                    /\ LET batch == [n \in 1..Len(order) |->
                                        import_item(user, ids[order[n]],
                                                    properties_data[order[n]].v, now')]
                       IN  IF batch = <<>>
                           THEN /\ resp' = [Answer("import_properties", user, NoId,
                                                   Response(200, "", <<>>))
                                            EXCEPT !.query =
                                                <<body, 0, Len(properties_data)>>]
                                /\ req' = req
                           ELSE /\ req' = [req EXCEPT ![w] =
                                        [Begin(user, NoId, body) EXCEPT
                                            !.pc = "import_write", !.time = now',
                                            !.batch = batch]]
                                /\ resp' = resp
    /\ UNCHANGED <<store, vin, vop, vout>>

(* the table after put_item of the items of batch with an index in written *)
PutAll(st, batch, written) ==
    [k \in Keys |->
        IF \E n \in written : k = KeyOf(batch[n])
        THEN <<batch[CHOOSE n \in written : k = KeyOf(batch[n])]>>
        ELSE st[k]]

(* successful_count of import_properties: the size of the batch, or what   *)
(* insert_properties_individually counted after the batch failed           *)
successful_count(batch_ok, batch_size, by_single) ==
    IF batch_ok THEN batch_size ELSE Cardinality(by_single)

(* batch_insert_properties and, when it fails, insert_properties_individually: *)
(* a failed batch may have written some items, each single put may fail.   *)
(* The answer lists every item of the batch among successful_imports,      *)
(* "imported" is the length of the batch or the number of single puts that *)
(* succeeded, "failed" the number of entries the loop turned down.         *)
ImportWrite(w) ==
    /\ At(w, "import_write")
    /\ LET r == req[w]
           all == 1..Len(r.batch)
           total == Len(Get(Bodies[r.body], "properties", <<>>))
       IN  \E batch_ok \in BOOLEAN, by_batch \in SUBSET all, by_single \in SUBSET all :
            /\ batch_ok => (by_batch = all /\ by_single = {})
            /\ ~batch_ok => by_batch # all
            /\ store' = PutAll(store, r.batch, by_batch \cup by_single)
            /\ resp' = [Answer("import_properties", r.user, NoId,
                            Response(200, "", [n \in all |-> KeyOf(r.batch[n])]))
                        EXCEPT !.query =
                            <<r.body,
                              successful_count(batch_ok, Len(r.batch), by_single),
                              total - Len(r.batch)>>]
    /\ req' = [req EXCEPT ![w] = IdleReq]
    /\ UNCHANGED <<now, usedIds, vin, vop, vout>>

(* the answer lambda_handler returned is handed over to the caller *)
Return ==
    /\ resp # NoAnswer
    /\ resp' = NoAnswer
    /\ UNCHANGED <<store, now, usedIds, req, vin, vop, vout>>

Init ==
    /\ MainIdle
    /\ vin = EmptyBody
    /\ vop = "none"
    /\ vout = Valid

Next ==
    \/ Return
    \/ \E w \in Workers :
        \/ LambdaHandlerAnswer(w)
        \/ CreateProperty(w)
        \/ GetProperties(w)
        \/ UpdateCheck(w)
        \/ UpdateWrite(w)
        \/ DeleteCheck(w)
        \/ DeleteWrite(w)
        \/ GetPropertyAnalysis(w)
        \/ GeneratePdfReport(w)
        \/ ImportPrepare(w)
        \/ ImportWrite(w)

Spec == Init /\ [][Next]_vars

(* The second step of a handler that was started: the invocation runs to  *)
(* the end of lambda_handler.                                              *)
Finish(w) == UpdateWrite(w) \/ DeleteWrite(w) \/ ImportWrite(w)

(* Every invocation that was started is run to its return statement.  The *)
(* step of a started handler is enabled each time the answer of another    *)
(* invocation has been handed over, hence strong fairness.                 *)
SpecFair ==
    Spec /\ WF_vars(Return) /\ \A w \in Workers : SF_vars(Finish(w))

----------------------------------------------------------------------------
(* Claims about the validators *)

(* the error of the specification's taxonomy a validator result stands for *)
ErrorKind(r) ==
    IF r.raised # "none" THEN "Exception"
    ELSE IF r.valid THEN "Ok"
    ELSE CASE r.message = "Campo obrigatorio: name" -> "MissingField(name)"
           [] r.message = "Campo obrigatorio: area" -> "MissingField(area)"
           [] r.message = "Campo obrigatorio: perimeter" -> "MissingField(perimeter)"
           [] r.message = "Campo obrigatorio: coordinates" -> "MissingField(coordinates)"
           [] r.message = "Nome deve ter pelo menos 2 caracteres" -> "InvalidName"
           [] r.message = "Nome deve ter no maximo 100 caracteres" -> "InvalidName"
           [] r.message = "Area deve ser um numero valido" -> "InvalidNumber(area)"
           [] r.message = "Area deve ser maior que zero" -> "OutOfRange(area)"
           [] r.message = "Area muito grande" -> "OutOfRange(area)"
           [] r.message = "Perimetro deve ser um numero valido" -> "InvalidNumber(perimeter)"
           [] r.message = "Perimetro deve ser maior que zero" -> "OutOfRange(perimeter)"
           [] r.message = "Coordenadas em formato invalido" -> "InvalidGeometry"
           [] r.message = "Tipo invalido" -> "InvalidType"
           [] r.message = "Descricao deve ter no maximo 500 caracteres" -> "TooLong(description)"
           [] OTHER -> "EmptyUpdate"

(* the geometry rule as the claim words it *)
PointInBounds(pt) ==
    /\ pt.t = "list"
    /\ Len(pt.v) = 2
    /\ ToFloat(pt.v[1]).ok /\ ToFloat(pt.v[2]).ok
    /\ ToFloat(pt.v[1]).v \in MinLon..MaxLon
    /\ ToFloat(pt.v[2]).v \in MinLat..MaxLat

GeometryRule(c) ==
    /\ c.t = "list"
    /\ Len(c.v) >= 4
    /\ \A i \in 1..Len(c.v) : PointInBounds(c.v[i])
    /\ PyEq(c.v[1].v[1], c.v[Len(c.v)].v[1])
    /\ PyEq(c.v[1].v[2], c.v[Len(c.v)].v[2])

(* the rules of validate_create in the claimed order; each yields its error or "Ok" *)
RuleRequired(data) ==
    IF ~Has(data, "name") THEN "MissingField(name)"
    ELSE IF ~Has(data, "area") THEN "MissingField(area)"
    ELSE IF ~Has(data, "perimeter") THEN "MissingField(perimeter)"
    ELSE IF ~Has(data, "coordinates") THEN "MissingField(coordinates)"
    ELSE "Ok"

RuleName(x) ==
    IF x.t = "str" /\ Len(strip(x.v)) \in MinNameLen..MaxNameLen THEN "Ok"
    ELSE "InvalidName"

RuleArea(x) ==
    IF ~ToDecimal(x).ok THEN "InvalidNumber(area)"
    ELSE IF ToDecimal(x).v <= 0 \/ ToDecimal(x).v > MaxArea THEN "OutOfRange(area)"
    ELSE "Ok"

RulePerimeter(x) ==
    IF ~ToDecimal(x).ok THEN "InvalidNumber(perimeter)"
    ELSE IF ToDecimal(x).v <= 0 THEN "OutOfRange(perimeter)"
    ELSE "Ok"

RuleCoordinates(x) == IF GeometryRule(x) THEN "Ok" ELSE "InvalidGeometry"

RuleType(data) ==
    IF ~Has(data, "type") THEN "Ok"
    ELSE IF data["type"].t = "str" /\ data["type"].v \in valid_types THEN "Ok"
    ELSE "InvalidType"

RuleDescription(data) ==
    IF ~Has(data, "description") THEN "Ok"
    ELSE IF data["description"].t = "str"
            /\ Len(data["description"].v) <= MaxDescriptionLen THEN "Ok"
    ELSE "TooLong(description)"

RuleVerdicts(data) ==
    <<RuleRequired(data),
      IF Has(data, "name") THEN RuleName(data["name"]) ELSE "Ok",
      IF Has(data, "area") THEN RuleArea(data["area"]) ELSE "Ok",
      IF Has(data, "perimeter") THEN RulePerimeter(data["perimeter"]) ELSE "Ok",
      IF Has(data, "coordinates") THEN RuleCoordinates(data["coordinates"]) ELSE "Ok",
      RuleType(data),
      RuleDescription(data)>>

FirstFailure(verdicts) ==
    IF \A i \in 1..Len(verdicts) : verdicts[i] = "Ok" THEN "Ok"
    ELSE verdicts[CHOOSE i \in 1..Len(verdicts) :
                    /\ verdicts[i] # "Ok"
                    /\ \A j \in 1..(i - 1) : verdicts[j] = "Ok"]

TextFieldsAreText(data) ==
    /\ Has(data, "name") => data["name"].t = "str"
    /\ Has(data, "description") => data["description"].t = "str"

(* C6: validate_create returns the error of the earliest violated rule in  *)
(* the order required fields, name, area, perimeter, coordinates, type,    *)
(* description, and succeeds iff no rule is violated.                      *)
C6_FirstFailingRule ==
    vop = "validate_property_data" => ErrorKind(vout) = FirstFailure(RuleVerdicts(vin))

(* C6, on the payloads whose name and description are JSON strings: the    *)
(* order of the rules is the claimed one.                                  *)
C6_FirstFailingRuleOnText ==
    (vop = "validate_property_data" /\ TextFieldsAreText(vin))
        => ErrorKind(vout) = FirstFailure(RuleVerdicts(vin))

(* the payload with known-good values for the required fields it lacks *)
Completed(data) ==
    [f \in DOMAIN data \cup {"name", "area", "perimeter", "coordinates"} |->
        IF Has(data, f) THEN data[f]
        ELSE CASE f = "name" -> JStr(<<"o", "k">>)
               [] f = "area" -> JNum(1)
               [] f = "perimeter" -> JNum(1)
               [] f = "coordinates" -> RingA]

EmptyUpdate == Invalid("Pelo menos um campo deve ser fornecido para atualizacao")

NoUpdatableField(data) ==
    DOMAIN data \cap {"name", "type", "description", "area", "perimeter", "coordinates"} = {}

ValidateUpdateAsClaimed ==
    vop = "validate_update_data" =>
        IF NoUpdatableField(vin) THEN vout = EmptyUpdate
        ELSE vout # EmptyUpdate /\ vout = validate_property_data(Completed(vin))

C8_GeometryRule ==
    vop = "validate_coordinates" => (vout.valid <=> GeometryRule(vin))

C8_Witness ==
    /\ vop = "validate_coordinates"
    /\ vout.valid
    /\ Len(vin.v) = 4
    /\ ~PyEq(vin.v[1], vin.v[2])

----------------------------------------------------------------------------
(* Claims about the handlers and the table *)

(* the step in which worker w leaves pc with its answer *)
Answers(w, pc) == req[w].pc = pc /\ req'[w].pc = "idle"
RequestKey(w) == <<req[w].user, req[w].id>>

(* the answers that report a failure of the table call itself *)
StoreFault(r) ==
    /\ r.status = 500
    /\ r.error \in {"Erro interno do servidor", "Erro ao atualizar propriedade: detail",
                    "Erro ao deletar propriedade: detail", "Erro inesperado: detail"}

(* C1: a request made with identity A never returns, modifies or deletes a *)
(* record whose owner is not A: every record an answer is made from and    *)
(* every record get_existing_property hands to a handler is owned by the   *)
(* caller, and a step changes the table only at keys of the caller it      *)
(* answers to.                                                             *)
OwnRecordsReturned ==
    /\ \A i \in 1..Len(resp.items) : resp.items[i][1] = resp.user
    /\ \A w \in Workers :
        /\ req[w].existing # <<>> => req[w].existing[1] = req[w].user
        /\ \A n \in 1..Len(req[w].batch) : req[w].batch[n].userId = req[w].user
    /\ \A k \in Keys : Present(store, k) => KeyOf(store[k][1]) = k
OwnRecordsWritten ==
    \A k \in Keys : store'[k] # store[k] => k[1] = resp'.user
C1_OwnerIsolation == []OwnRecordsReturned /\ [][OwnRecordsWritten]_vars

(* a caller asked for the deletion of an id that exists under the other    *)
(* owner and was answered 404, the other owner's record still in the table *)
C1_Witness ==
    /\ resp.op = "delete_property"
    /\ resp.user = "A"
    /\ resp.id \in PropertyIds
    /\ Present(store, <<"B", resp.id>>)
    /\ resp.status = 404

(* the geometry and the ranges a stored record is to have *)
StoredPointInBounds(p) ==
    /\ Len(p) = 2
    /\ MinLon <= p[1] /\ p[1] <= MaxLon
    /\ MinLat <= p[2] /\ p[2] <= MaxLat
StoredValid(item) ==
    /\ {"area", "perimeter", "coordinates"} \subseteq DOMAIN item
    /\ 0 < item.area /\ item.area <= MaxArea
    /\ 0 < item.perimeter
    /\ Len(item.coordinates) >= MinPoints
    /\ \A i \in 1..Len(item.coordinates) : StoredPointInBounds(item.coordinates[i])
    /\ item.coordinates[1] = item.coordinates[Len(item.coordinates)]

(* C2: every record present in the table has area in (0, 1000000],         *)
(* perimeter > 0 and coordinates that are a closed ring of at least 4      *)
(* in-bounds points.                                                       *)
C2_StoredRecordsValid ==
    \A k \in Keys : Present(store, k) => StoredValid(store[k][1])

(* C3: when no record is under the key at the moment the write of an       *)
(* update executes, the update is answered NotFound (or with the fault of  *)
(* the table call) and the table still holds no record under the key.      *)
C3_UpdateNeverCreates ==
    [][\A w \in Workers :
        (Answers(w, "update_write") /\ ~Present(store, RequestKey(w)))
            => /\ ~Present(store', RequestKey(w))
               /\ resp'.status = 404 \/ StoreFault(resp')]_vars

(* C4: a delete of a key that is not in the table is answered NotFound and *)
(* changes nothing; a successful delete removes exactly the record of its  *)
(* key; and a key that is not in the table comes into it only by a create  *)
(* (create_property or import_properties).                                 *)
DeleteOfAbsentKey ==
    \A w \in Workers :
        (/\ resp = NoAnswer /\ resp'.op = "delete_property" /\ req'[w] = IdleReq
         /\ req[w].pc \in {"idle", "delete_write"}
         /\ resp'.id \in PropertyIds
         /\ ~Present(store, <<resp'.user, resp'.id>>)
         /\ ~StoreFault(resp'))
            => resp'.status = 404 /\ store' = store
DeleteOfPresentKey ==
    (resp = NoAnswer /\ resp'.op = "delete_property" /\ resp'.status = 200)
        => /\ Present(store, <<resp'.user, resp'.id>>)
           /\ store' = [store EXCEPT ![<<resp'.user, resp'.id>>] = <<>>]
AbsentUntilCreate ==
    \A k \in Keys :
        (~Present(store, k) /\ Present(store', k))
            => resp'.op \in {"create_property", "import_properties"}
C4_DeleteSemantics ==
    [][DeleteOfAbsentKey /\ DeleteOfPresentKey /\ AbsentUntilCreate]_vars

(* C5: a delete whose record was removed between its existence check and  *)
(* its conditioned delete_item is answered 404, not 500.                   *)
C5_ConditionedDeleteMissIs404 ==
    [][\A w \in Workers :
        (/\ Answers(w, "delete_write")
         /\ ~Present(store, RequestKey(w))
         /\ resp'.error = "Propriedade nao encontrada ou nao pertence ao usuario")
            => resp'.status = 404]_vars

(* C9: a successful update of an existing record with the fields F changes *)
(* only the fields in F and updatedAt, leaves the other records alone, and *)
(* makes updatedAt strictly greater than it was.                           *)
C9_PartialUpdateFrame ==
    [][\A w \in Workers :
        (/\ Answers(w, "update_write")
         /\ resp'.status = 200
         /\ Present(store, RequestKey(w)))
            => LET old == store[RequestKey(w)][1]
                   new == store'[RequestKey(w)][1]
                   F == UpdatedFields(Bodies[req[w].body])
               IN  /\ Present(store', RequestKey(w))
                   /\ DOMAIN new = DOMAIN old \cup F
                   /\ \A f \in DOMAIN old \ (F \cup {"updatedAt"}) : new[f] = old[f]
                   /\ \A f \in F : new[f] = UpdateValue(Bodies[req[w].body], f)
                   /\ \A k \in Keys \ {RequestKey(w)} : store'[k] = store[k]
                   /\ new.updatedAt > old.updatedAt]_vars

(* C10: every record in the table has createdAt and updatedAt, and         *)
(* updatedAt >= createdAt.                                                 *)
C10_TimestampsOrdered ==
    \A k \in Keys :
        Present(store, k)
            => /\ {"createdAt", "updatedAt"} \subseteq DOMAIN store[k][1]
               /\ store[k][1].updatedAt >= store[k][1].createdAt

----------------------------------------------------------------------------
(* Claims about listing, statistics and the router *)

(* the record under k carries its creation time *)
Dated(k) == Present(store, k) /\ "createdAt" \in DOMAIN store[k][1]
CreatedAt(k) == store[k][1].createdAt
Listed == resp.op = "get_properties" /\ resp.status = 200
ListedKeys == {resp.items[i] : i \in 1..Len(resp.items)}
OwnedKeys(user_id) == {k \in Keys : k[1] = user_id /\ Present(store, k)}

(* C11: a list answer holds the owner's records newest first: a record of  *)
(* the page that precedes another was created no earlier, and a first,     *)
(* unfiltered page of L records out of more than L holds the L most        *)
(* recently created ones.                                                  *)
C11_NewestFirst ==
    Listed =>
        /\ \A i, j \in 1..Len(resp.items) :
            (i < j /\ Dated(resp.items[i]) /\ Dated(resp.items[j]))
                => CreatedAt(resp.items[i]) >= CreatedAt(resp.items[j])
        /\ (/\ resp.query[1] = <<>>
            /\ resp.query[3] = NoId
            /\ Cardinality(OwnedKeys(resp.user)) > resp.query[2])
                => /\ Len(resp.items) = resp.query[2]
                   /\ \A k \in ListedKeys, o \in OwnedKeys(resp.user) \ ListedKeys :
                        (Dated(k) /\ Dated(o)) => CreatedAt(k) >= CreatedAt(o)

(* sums written out over the indices of the page *)
RECURSIVE SumTo(_, _)
SumTo(f, n) == IF n = 0 THEN 0 ELSE f[n] + SumTo(f, n - 1)

RECURSIVE SumOver(_, _)
SumOver(f, S) ==
    IF S = {} THEN 0
    ELSE LET x == CHOOSE y \in S : TRUE IN f[x] + SumOver(f, S \ {x})

PageAreas == [i \in 1..Len(vin) |-> vin[i].area.v]
PagePerimeters == [i \in 1..Len(vin) |-> vin[i].perimeter.v]
PositiveAreas == {PageAreas[i] : i \in {j \in 1..Len(vin) : PageAreas[j] > 0}}
Abs(x) == IF x < 0 THEN 0 - x ELSE x

(* C12: the statistics of a page: the count, the sums of area and          *)
(* perimeter, the average area total / count to the kept precision (0 for  *)
(* the empty page), the largest and smallest area among the areas above    *)
(* zero (0 when there is none), and type counts that sum to the count.     *)
C12_PageStatistics ==
    vop = "calculate_stats" =>
        /\ vout.totalProperties = Len(vin)
        /\ vout.totalArea = SumTo(PageAreas, Len(vin))
        /\ vout.totalPerimeter = SumTo(PagePerimeters, Len(vin))
        /\ IF Len(vin) = 0 THEN vout.averageArea = 0
           ELSE 2 * Abs(vout.averageArea * Len(vin) - vout.totalArea * Scale) <= Len(vin)
        /\ IF PositiveAreas = {}
           THEN vout.largestProperty = 0 /\ vout.smallestProperty = 0
           ELSE /\ vout.largestProperty \in PositiveAreas
                /\ vout.smallestProperty \in PositiveAreas
                /\ \A a \in PositiveAreas :
                    vout.smallestProperty <= a /\ a <= vout.largestProperty
        /\ SumOver(vout.typeDistribution, DOMAIN vout.typeDistribution) = Len(vin)

(* the page of areas 10 and 30 and a record without area: total 40, the    *)
(* smallest area 10 although an area of 0 is in the page                   *)
C12_Witness ==
    /\ vop = "calculate_stats"
    /\ Len(vin) = 3
    /\ {PageAreas[i] : i \in 1..3} = {0, 10, 30}
    /\ vout.totalArea = 40
    /\ vout.largestProperty = 30
    /\ vout.smallestProperty = 10

(* C13: a request without identity is answered 401 by lambda_handler      *)
(* itself: no handler answers it or is running for it, and the step that   *)
(* answers it leaves the table, the clock, the ids and the running         *)
(* invocations as they are.                                                *)
AnonymousIs401 ==
    /\ (resp # NoAnswer /\ resp.user = NoUser)
            => (resp.op = "lambda_handler" /\ resp.status = 401)
    /\ \A w \in Workers : req[w].pc # "idle" => req[w].user \in Owners
AnonymousChangesNothing ==
    (resp' # NoAnswer /\ resp'.user = NoUser)
        => UNCHANGED <<store, now, usedIds, req>>
C13_NoIdentityIs401 == []AnonymousIs401 /\ [][AnonymousChangesNothing]_vars

(* a request without identity was answered 401 while a record is in the    *)
(* table and an update of it is between its two table calls                *)
C13_Witness ==
    /\ resp.op = "lambda_handler"
    /\ resp.user = NoUser
    /\ resp.status = 401
    /\ \E k \in Keys : Present(store, k)
    /\ \E w \in Workers : req[w].pc = "update_write"

(* C14 as claimed: an OPTIONS request on any path is answered 200 with the *)
(* CORS headers, whatever else the event carries.                          *)
C14_OptionsIs200 ==
    (vop = "lambda_handler" /\ vin.httpMethod = "OPTIONS")
        => (vout.response.status = 200 /\ vout.response.headers = CorsHeaders)

(* C14 as amended: an OPTIONS request with an identity is answered 200     *)
(* with the CORS headers on every path and reaches no handler; without     *)
(* identity it is answered 401, with the same headers.                     *)
C14_OptionsWithIdentityIs200 ==
    (vop = "lambda_handler" /\ vin.httpMethod = "OPTIONS")
        => /\ vout.response.headers = CorsHeaders
           /\ IF vin.user = NoUser
              THEN vout.dispatch = "unauthorized" /\ vout.response.status = 401
              ELSE vout.dispatch = "options" /\ vout.response.status = 200

C14_Witness ==
    /\ vop = "lambda_handler"
    /\ vin.httpMethod = "OPTIONS"
    /\ vin.resource = "/properties/{id}"
    /\ vin.user = "A"
    /\ vout.response.status = 200

(* the list of the import request an answer is given to *)
ImportedList(answer) ==
    IF answer.query[1] = 0 THEN <<>>
    ELSE Get(Bodies[answer.query[1]], "properties", <<>>)
AnswersImport == resp = NoAnswer /\ resp'.op = "import_properties"

(* C15: an import of more than 100 entries is answered 400 and changes     *)
(* nothing, whether its entries are valid or not; no import with such a    *)
(* list gets as far as its write.                                          *)
C15_ImportCap ==
    /\ [][(AnswersImport /\ Len(ImportedList(resp')) > MaxImport)
            => (resp'.status = 400 /\ UNCHANGED <<store, now, usedIds, req>>)]_vars
    /\ [](\A w \in Workers :
            req[w].pc = "import_write"
                => Len(Get(Bodies[req[w].body], "properties", <<>>)) <= MaxImport)

(* 101 entries, the last one valid, were answered 400 while the table      *)
(* holds records                                                           *)
C15_Witness ==
    /\ resp.op = "import_properties"
    /\ Len(ImportedList(resp)) = MaxImport + 1
    /\ resp.status = 400
    /\ \E k \in Keys : Present(store, k)

(* an entry that is a dict, passes validation and converts *)
EntryValid(entry) == entry.t = "dict" /\ Importable(entry.v)

(* C16: an import of 1 to 100 entries is answered 200 whatever is wrong    *)
(* with single entries, and every valid entry is among the accepted ones.  *)
C16_ItemFailureNotEscalated ==
    [][(/\ AnswersImport
        /\ Len(ImportedList(resp')) >= 1
        /\ Len(ImportedList(resp')) <= MaxImport)
            => /\ resp'.status = 200
               /\ Len(resp'.items) =
                    Cardinality({i \in 1..Len(ImportedList(resp')) :
                                    EntryValid(ImportedList(resp')[i])})]_vars

(* C17: once create_property has written the record, the request is       *)
(* answered 201 and the record is in the table, whether the event was      *)
(* published, failed to be published or had no bus to go to.               *)
C17_PublicationBestEffort ==
    [][(resp = NoAnswer /\ resp'.op = "create_property" /\ store' # store)
        => /\ resp'.status = 201
           /\ resp'.query[1] \in PublishOutcomes
           /\ Present(store', <<resp'.user, resp'.id>>)
           /\ resp'.items = <<<<resp'.user, resp'.id>>>>]_vars

(* a create whose publication failed was answered 201, its record stored *)
C17_Witness ==
    /\ resp.op = "create_property"
    /\ resp.query = <<"failed">>
    /\ resp.status = 201
    /\ Present(store, <<resp.user, resp.id>>)

----------------------------------------------------------------------------
(* Claims about failures *)

StatusCodes == {200, 201, 400, 401, 404, 500}

(* every answer is a response made by create_response with a status of    *)
(* the API                                                                 *)
Structured ==
    resp # NoAnswer => /\ resp.status \in StatusCodes
                       /\ DOMAIN resp = DOMAIN NoAnswer

Started(w) == req[w].pc # "idle"

(* C18: every request ends with a structured response: whatever the       *)
(* table, the event bus or the report do, every answer has a status among  *)
(* 200, 201, 400, 401, 404, 500, and every handler that was started        *)
(* returns: no invocation stays started for ever.                          *)
C18_StructuredResponse ==
    /\ []Structured
    /\ \A w \in Workers : []<>~Started(w)

(* the table failed under the delete of a record that is there, and the   *)
(* request was answered 500                                                *)
C18_Witness ==
    /\ resp.op = "delete_property"
    /\ resp.status = 500
    /\ Present(store, <<resp.user, resp.id>>)

(* the messages of the except clauses, which have no fault text in them *)
GenericMessages ==
    {"Erro interno do servidor", "Erro ao inserir propriedades no banco",
     "Erro na importacao de propriedades", "Erro ao gerar relatorio PDF"}

(* C19: every 500 answer carries one of a fixed set of constant messages   *)
(* and nothing of the text of the failure behind it, so that two failures  *)
(* that differ in their text only are answered alike.                      *)
C19_GenericFailure ==
    resp.status = 500 => /\ resp.fault = NoText
                         /\ resp.error \in GenericMessages

(* C20: every record of the table, formatted for a response, is accepted  *)
(* by validate_update_data as the body of an update.                       *)
C20_FormatIdempotence ==
    \A k \in Keys :
        Present(store, k)
            => validate_update_data(format_property_for_response(store[k][1])) = Valid

----------------------------------------------------------------------------
(* Claims about concurrent requests, the import and the route table *)

(* the delete of worker w that passed its existence check makes its       *)
(* delete_item call and answers                                            *)
DeleteSucceedsOnce(w) ==
    resp'.status = 200 => /\ Present(store, RequestKey(w))
                          /\ ~Present(store', RequestKey(w))
DeleteLostTheRace(w) ==
    ~Present(store, RequestKey(w)) => resp'.status # 200 /\ store' = store
DeleteLeavesAbsent(w) ==
    resp'.fault = NoText => ~Present(store', RequestKey(w))

(* C21: of the deletes that run together on one record at most one is     *)
(* answered 200: a delete is answered 200 only if its delete_item found    *)
(* the record and removed it, a delete that finds the record gone is not   *)
(* answered 200, and the record is absent after every delete_item that the *)
(* table did not fail.                                                     *)
C21_AtMostOnceDelete ==
    [][\A w \in Workers :
        Answers(w, "delete_write")
            => DeleteSucceedsOnce(w) /\ DeleteLostTheRace(w) /\ DeleteLeavesAbsent(w)]_vars

(* one of two deletes of the same record found it gone: it was not        *)
(* answered 200 and the record is absent                                   *)
C21_Witness ==
    /\ resp.op = "delete_property"
    /\ resp.error = "Propriedade nao encontrada ou nao pertence ao usuario"
    /\ resp.status # 200
    /\ ~Present(store, <<resp.user, resp.id>>)

(* C22: updates of one record that run together do not undo each other:   *)
(* the update_item of a successful update sets the fields of its own body  *)
(* to the values of its body, whatever was written since its check, and    *)
(* leaves every other field but updatedAt as the write before it left it.  *)
(* So the fields of two bodies with no field in common both end up in the  *)
(* record, and a field of both bodies has the value written last.          *)
C22_ConcurrentUpdates ==
    [][\A w \in Workers :
        (/\ Answers(w, "update_write")
         /\ resp'.status = 200
         /\ Present(store, RequestKey(w)))
            => LET before == store[RequestKey(w)][1]
                   after == store'[RequestKey(w)][1]
                   update_data == Bodies[req[w].body]
               IN  /\ \A f \in UpdatedFields(update_data) :
                            after[f] = UpdateValue(update_data, f)
                   /\ \A f \in DOMAIN before \ (UpdatedFields(update_data)
                                                    \cup {"updatedAt"}) :
                            f \in DOMAIN after /\ after[f] = before[f]]_vars

(* two updates of one record were past their checks together; the first   *)
(* write, of the description, was answered 200, the second write is that   *)
(* of another area and is still to come                                    *)
C22_Witness ==
    /\ resp.op = "update_property"
    /\ resp.status = 200
    /\ Present(store, <<resp.user, resp.id>>)
    /\ store[<<resp.user, resp.id>>][1].description = UpdDescription.description
    /\ \E w \in Workers :
        /\ req[w].pc = "update_write"
        /\ RequestKey(w) = <<resp.user, resp.id>>
        /\ Bodies[req[w].body] = UpdAreaOther
        /\ store[RequestKey(w)][1].area # UpdateValue(UpdAreaOther, "area")

(* the record after two updates of its area that ran together has the     *)
(* area written last                                                       *)
C22_WitnessSameField ==
    /\ resp.op = "update_property"
    /\ resp.status = 200
    /\ Present(store, <<resp.user, resp.id>>)
    /\ store[<<resp.user, resp.id>>][1].area = UpdateValue(UpdArea, "area")
    /\ \E w \in Workers :
        /\ req[w].pc = "update_write"
        /\ RequestKey(w) = <<resp.user, resp.id>>
        /\ Bodies[req[w].body] = UpdAreaOther

(* C23: the answer of an import whose batch of items went to the table    *)
(* accounts for every entry: "imported" is the number of its items that    *)
(* are in the table, every item of successful_imports is in the table, and *)
(* imported + failed is the number of entries.                             *)
C23_ImportAccounting ==
    [][\A w \in Workers :
        Answers(w, "import_write")
            => LET batch == req[w].batch
                   written == {n \in 1..Len(batch) : Present(store', KeyOf(batch[n]))}
                   imported == resp'.query[2]
                   failed == resp'.query[3]
               IN  /\ resp'.status = 200
                   /\ imported = Cardinality(written)
                   /\ \A n \in 1..Len(resp'.items) : Present(store', resp'.items[n])
                   /\ imported + failed = Len(ImportedList(resp'))]_vars

(* the route table: method, path shape, handler *)
RouteTable ==
    {<<"POST", "/properties", "create_property">>,
     <<"GET", "/properties", "get_properties">>,
     <<"PUT", "/properties/{id}", "update_property">>,
     <<"DELETE", "/properties/{id}", "delete_property">>,
     <<"GET", "/properties/{id}/analysis", "get_property_analysis">>,
     <<"POST", "/properties/report", "generate_pdf_report">>,
     <<"POST", "/properties/import", "import_properties">>}

InRouteTable(method, resource) ==
    \E row \in RouteTable : row[1] = method /\ row[2] = resource

(* C24: the dispatch of a request with an identity follows the route      *)
(* table: update only for PUT /properties/{id}, delete only for DELETE     *)
(* /properties/{id}, create only for POST /properties, and a pair of       *)
(* method and path shape that is not in the table (OPTIONS aside) is       *)
(* answered 404 by lambda_handler itself, no handler being called.         *)
C24_DispatchFollowsTable ==
    (vop = "lambda_handler" /\ vin.user # NoUser)
        => /\ vout.dispatch \in {"update_property", "delete_property", "create_property"}
                => <<vin.httpMethod, vin.resource, vout.dispatch>> \in RouteTable
           /\ (vin.httpMethod # "OPTIONS" /\ ~InRouteTable(vin.httpMethod, vin.resource))
                => vout.dispatch = "not_found" /\ vout.response.status = 404

====
